---- MODULE Spec2Model ----
(***************************************************************************)
(* Model of pprl.models.ppt.PointPatchTransformer: construction from an    *)
(* observation space and three factory callables, the weight               *)
(* initialisation pass, the forward pass and the embed_dim property.       *)
(*                                                                         *)
(* Optional Python values (None / attribute not yet assigned) are          *)
(* sequences of length 0 or 1.  Tensors are records [err, B, cols]: B is   *)
(* the leading (batch) dimension and cols lists the columns of the         *)
(* trailing dimension symbolically, so that widths, order and provenance   *)
(* of every column can be stated.                                          *)
(***************************************************************************)
EXTENDS Integers, Sequences, FiniteSets, TLC

VARIABLES self, status, error, events, args, observation, out, calls, first, ncalls

vars == <<self, status, error, events, args, observation, out, calls, first, ncalls>>

----------------------------------------------------------------------------
(* Bounds of the model *)

MaxFieldWidth == 2
MaxEmbedDim == 2
MaxStateEmbedDim == 2
MaxBatch == 2
MaxCalls == 3

----------------------------------------------------------------------------
(* Observation spaces *)

PointDims == {3}

PointCloudSpace(d) == [kind |-> "PointCloudSpace", shape |-> <<d>>, entries |-> <<>>]

Box(shape) == [kind |-> "Box", shape |-> shape, entries |-> <<>>]

BoxShapes == {<<>>} \cup {<<w>> : w \in 1..MaxFieldWidth}

LeafSpaces == {PointCloudSpace(d) : d \in PointDims} \cup {Box(s) : s \in BoxShapes}

FieldNames == {"points", "a", "b"}

SpaceEntries == {[name |-> n, space |-> s] : n \in FieldNames, s \in LeafSpaces}

Distinct(es) == \A i, j \in 1..Len(es) : i # j => es[i].name # es[j].name

\* auxiliary fields are Box spaces; the "points" entry may be any leaf space
EntryLists ==
    {es \in UNION {[1..n -> SpaceEntries] : n \in 0..Cardinality(FieldNames)} :
        /\ Distinct(es)
        /\ \A i \in 1..Len(es) :
              es[i].name # "points" => es[i].space.kind = "Box"}

DictSpace(es) == [kind |-> "Dict", shape |-> <<>>, entries |-> es]

ObsSpaces == LeafSpaces \cup {DictSpace(es) : es \in EntryLists}

HasKey(d, k) == \E i \in 1..Len(d.entries) : d.entries[i].name = k

GetItem(d, k) == d.entries[CHOOSE i \in 1..Len(d.entries) : d.entries[i].name = k].space

----------------------------------------------------------------------------
(* Layers and modules *)

Layer(type, weight, bias) == [type |-> type, weight |-> weight, bias |-> bias]

\* torch.nn.Linear(in_features, out_features): default reset_parameters()
NewLinear(in_features, out_features) ==
    [type |-> "Linear", weight |-> <<"kaiming_uniform">>,
     bias |-> <<IF in_features > 0 THEN "uniform" ELSE "zero">>,
     in_features |-> in_features, out_features |-> out_features]

\* sub-layers a collaborator may own, in the state its own constructor left them
LayerChoices ==
    { Layer("Linear", <<"custom">>, <<"custom">>),
      Layer("Linear", <<"custom">>, <<>>),
      Layer("LayerNorm", <<"custom">>, <<"custom">>),
      Layer("LayerNorm", <<>>, <<>>),
      Layer("Other", <<"custom">>, <<"custom">>) }

CanonicalLayers == { Layer("Linear", <<"custom">>, <<"custom">>) }

Module(cls, point_dim, embed_dim, layers) ==
    [cls |-> cls, point_dim |-> point_dim, embed_dim |-> embed_dim, layers |-> layers]

\* the factory callables: tokenizer(point_dim=, embed_dim=), pos_embedder(token_dim=),
\* transformer_encoder(embed_dim=), SequencePooling(embed_dim=)
TokenizerFactory(f, point_dim, embed_dim) == Module("Tokenizer", point_dim, embed_dim, f)

PosEmbedderFactory(f, token_dim) == Module("PosEmbedder", 0, token_dim, f)

TransformerEncoderFactory(f, embed_dim) == Module("TransformerEncoder", 0, embed_dim, f)

SequencePooling(f, embed_dim) == Module("SequencePooling", 0, embed_dim, f)

----------------------------------------------------------------------------
(* _init_weights and nn.Module.apply *)

InitWeightsNoBias(m) ==
    IF m.type = "Linear"
    THEN [err |-> "", m |-> [m EXCEPT !.weight = <<"trunc_normal_0.02">>]]
    ELSE IF m.type = "LayerNorm"
    THEN IF m.bias = <<>> \/ m.weight = <<>>
         THEN [err |-> "AttributeError", m |-> m]
         ELSE [err |-> "", m |-> [m EXCEPT !.weight = <<"one">>]]
    ELSE [err |-> "", m |-> m]

\* PointPatchTransformer._init_weights
InitWeights(m) ==
    IF m.type = "Linear"
    THEN [err |-> "",
          m |-> [m EXCEPT !.weight = <<"trunc_normal_0.02">>,
                          !.bias = IF m.bias # <<>> THEN <<"zero">> ELSE <<>>]]
    ELSE IF m.type = "LayerNorm"
    THEN IF m.bias = <<>> \/ m.weight = <<>>
         THEN [err |-> "AttributeError", m |-> m]
         ELSE [err |-> "", m |-> [m EXCEPT !.bias = <<"zero">>, !.weight = <<"one">>]]
    ELSE [err |-> "", m |-> m]

Event(ev, what, idx) == [ev |-> ev, what |-> what, idx |-> idx]

\* apply fn to the layers of one child module, first to last, stopping at the
\* first exception; returns the layers, the error and the visits made
RECURSIVE ApplyLayers(_, _, _)
ApplyLayers(layers, what, i) ==
    IF i > Len(layers)
    THEN [err |-> "", layers |-> layers, events |-> <<Event("init", what, 0)>>]
    ELSE LET r == InitWeights(layers[i])
         IN IF r.err # ""
            THEN [err |-> r.err, layers |-> layers, events |-> <<Event("init", what, i)>>]
            ELSE LET rest == ApplyLayers([layers EXCEPT ![i] = r.m], what, i + 1)
                 IN [rest EXCEPT !.events = <<Event("init", what, i)>> \o @]

ChildNames == <<"tokenizer", "pos_embedder", "transformer_encoder", "pooling", "state_encoder">>

\* the children registered on the module, in registration order
Children(s) == SelectSeq(ChildNames, LAMBDA n : s[n] # <<>>)

\* nn.Module.apply(self._init_weights): children first, in registration
\* order, then the module itself
RECURSIVE ApplyChildren(_, _, _)
ApplyChildren(s, names, k) ==
    IF k > Len(names)
    THEN [err |-> "", self |-> s, events |-> <<Event("init", "self", 0)>>]
    ELSE LET n == names[k]
         IN IF n = "state_encoder"
            THEN LET r == InitWeights(s[n][1])
                 IN IF r.err # ""
                    THEN [err |-> r.err, self |-> s, events |-> <<Event("init", n, 0)>>]
                    ELSE LET rest == ApplyChildren([s EXCEPT ![n] = <<r.m>>], names, k + 1)
                         IN [rest EXCEPT !.events = <<Event("init", n, 0)>> \o @]
            ELSE LET r == ApplyLayers(s[n][1].layers, n, 1)
                 IN IF r.err # ""
                    THEN [err |-> r.err, self |-> s, events |-> r.events]
                    ELSE LET rest == ApplyChildren(
                                        [s EXCEPT ![n] = <<[s[n][1] EXCEPT !.layers = r.layers]>>],
                                        names, k + 1)
                         IN [rest EXCEPT !.events = r.events \o @]

Apply(s) == ApplyChildren(s, Children(s), 1)

----------------------------------------------------------------------------
(* PointPatchTransformer.__init__ *)

None == <<>>

NewSelf ==
    [obs_is_dict |-> <<>>, tokenizer |-> <<>>, pos_embedder |-> <<>>,
     transformer_encoder |-> <<>>, pooling |-> <<>>, state_encoder |-> <<>>,
     state_dim |-> <<>>]

Raise(err, s, evs) == [error |-> err, self |-> s, events |-> evs]

\* the non-"points" entries, in the order the mapping yields them
StateEntries(entries) == SelectSeq(entries, LAMBDA e : e.name # "points")

RECURSIVE SumShape0(_)
SumShape0(entries) ==
    IF entries = <<>> THEN 0 ELSE Head(entries).space.shape[1] + SumShape0(Tail(entries))

StateDimWithPoints(obs_space) == SumShape0(obs_space.entries)

\* sum(space.shape[0] for name, space in obs_space.items() if name != "points")
StateDim(obs_space) == SumShape0(StateEntries(obs_space.entries))

StateDimRaises(obs_space) ==
    \E i \in 1..Len(obs_space.entries) :
        /\ obs_space.entries[i].name # "points"
        /\ obs_space.entries[i].space.shape = <<>>

RecordedStateDimRaw(state_dim, state_embed_dim) == state_dim

\* the width recorded in self.state_dim for a composite observation
RecordedStateDim(state_dim, state_embed_dim) ==
    IF state_embed_dim # None THEN state_embed_dim[1] ELSE state_dim

BareStateDimFromArg(state_embed_dim) ==
    IF state_embed_dim # None THEN state_embed_dim[1] ELSE 0

\* the width recorded in self.state_dim for a bare observation
BareStateDim(state_embed_dim) == 0

\* lines 47-59: the optional state projection and self.state_dim
StateSetup(s, obs_space, state_embed_dim, evs) ==
    IF s.obs_is_dict[1]
    THEN IF StateDimRaises(obs_space)
         THEN Raise("IndexError", s, evs)
         ELSE LET state_dim == StateDim(obs_space)
              IN IF state_embed_dim # None
                 THEN Raise("",
                        [s EXCEPT !.state_encoder = <<NewLinear(state_dim, state_embed_dim[1])>>,
                                  !.state_dim = <<RecordedStateDim(state_dim, state_embed_dim)>>],
                        evs \o <<Event("create", "state_encoder", 0)>>)
                 ELSE Raise("",
                        [s EXCEPT !.state_dim = <<RecordedStateDim(state_dim, state_embed_dim)>>],
                        evs)
    ELSE Raise("", [s EXCEPT !.state_dim = <<BareStateDim(state_embed_dim)>>], evs)

\* lines 36-45: the four sub-components, then the initialisation pass
Components(s, point_space, tokenizer, pos_embedder, transformer_encoder, embed_dim) ==
    LET point_dim == point_space.shape[1]
        s1 == [s EXCEPT !.tokenizer = <<TokenizerFactory(tokenizer, point_dim, embed_dim)>>]
        s2 == [s1 EXCEPT !.pos_embedder = <<PosEmbedderFactory(pos_embedder, embed_dim)>>]
        s3 == [s2 EXCEPT !.transformer_encoder =
                            <<TransformerEncoderFactory(transformer_encoder, embed_dim)>>]
    IN [self |-> s3,
        events |-> <<Event("instantiate", "tokenizer", 0),
                     Event("instantiate", "pos_embedder", 0),
                     Event("instantiate", "transformer_encoder", 0)>>]

ConstructInitLast(obs_space, tokenizer, pos_embedder, transformer_encoder, pooling, embed_dim, state_embed_dim) ==
    LET obs_is_dict == obs_space.kind = "Dict"
    IN IF obs_is_dict /\ ~HasKey(obs_space, "points")
       THEN Raise("KeyError", NewSelf, <<>>)
       ELSE
         LET point_space == IF obs_is_dict THEN GetItem(obs_space, "points") ELSE obs_space
         IN IF point_space.kind # "PointCloudSpace"
            THEN Raise("AssertionError", NewSelf, <<>>)
            ELSE IF point_space.shape = <<>>
            THEN Raise("IndexError", [NewSelf EXCEPT !.obs_is_dict = <<obs_is_dict>>], <<>>)
            ELSE
              LET s0 == [NewSelf EXCEPT !.obs_is_dict = <<obs_is_dict>>]
                  c  == Components(s0, point_space, tokenizer, pos_embedder,
                                   transformer_encoder, embed_dim)
                  s4 == [c.self EXCEPT !.pooling = <<SequencePooling(pooling, embed_dim)>>]
                  e4 == c.events \o <<Event("instantiate", "pooling", 0)>>
                  st == StateSetup(s4, obs_space, state_embed_dim, e4)
              IN IF st.error # ""
                 THEN st
                 ELSE LET a == Apply(st.self)
                      IN Raise(a.err, a.self, st.events \o a.events)

NoAssertPointSpaceOk(point_space) == TRUE

\* assert isinstance(point_space, PointCloudSpace)
PointSpaceOk(point_space) == point_space.kind = "PointCloudSpace"

\* PointPatchTransformer.__init__; pooling describes the layers SequencePooling owns
Construct(obs_space, tokenizer, pos_embedder, transformer_encoder, pooling, embed_dim, state_embed_dim) ==
    LET obs_is_dict == obs_space.kind = "Dict"
    IN IF obs_is_dict /\ ~HasKey(obs_space, "points")
       THEN Raise("KeyError", NewSelf, <<>>)
       ELSE
         LET point_space == IF obs_is_dict THEN GetItem(obs_space, "points") ELSE obs_space
         IN IF ~PointSpaceOk(point_space)
            THEN Raise("AssertionError", NewSelf, <<>>)
            ELSE IF point_space.shape = <<>>
            THEN Raise("IndexError", [NewSelf EXCEPT !.obs_is_dict = <<obs_is_dict>>], <<>>)
            ELSE
              LET s0 == [NewSelf EXCEPT !.obs_is_dict = <<obs_is_dict>>]
                  c  == Components(s0, point_space, tokenizer, pos_embedder,
                                   transformer_encoder, embed_dim)
                  s4 == [c.self EXCEPT !.pooling = <<SequencePooling(pooling, embed_dim)>>]
                  e4 == c.events \o <<Event("instantiate", "pooling", 0)>>
                  a  == Apply(s4)
              IN IF a.err # ""
                 THEN Raise(a.err, a.self, e4 \o a.events)
                 ELSE StateSetup(a.self, obs_space, state_embed_dim, e4 \o a.events)

\* the embed_dim property
EmbedDim(s) == s.transformer_encoder[1].embed_dim + s.state_dim[1]

----------------------------------------------------------------------------
(* Observations and tensors *)

Col(src, idx, term, input) == [src |-> src, idx |-> idx, term |-> term, input |-> input]

Tensor(B, cols) == [err |-> "", B |-> B, cols |-> cols]

TensorError(err) == [err |-> err, B |-> 0, cols |-> <<>>]

NoTensor == TensorError("none")

Width(t) == Len(t.cols)

\* a batch of B values of an auxiliary field of the given width
FieldValue(name, B, width) ==
    [kind |-> "Tensor", cloud |-> "", B |-> B,
     cols |-> [j \in 1..width |-> Col(name, j, <<>>, <<>>)]]

\* a batched point cloud holding B samples
PointCloudValue(cloud, B) == [kind |-> "PointCloud", cloud |-> cloud, B |-> B, cols |-> <<>>]

Clouds == {"cloud"}

\* the orders in which a mapping of n entries is made to yield them: the
\* declared order and its reverse
Orders(n) == {[i \in 1..n |-> i], [i \in 1..n |-> n + 1 - i]}

\* the observations that conform to a point-cloud space
BareObservations == {[is_dict |-> FALSE, entries |-> <<>>, value |-> PointCloudValue(c, B)] :
                        c \in Clouds, B \in 1..MaxBatch}

\* the mappings that conform to a Dict space: the same keys with values of the
\* declared widths and a common batch size, yielded in any order
DictObservations(space) ==
    LET n == Len(space.entries)
        value(e, c, B) == IF e.name = "points" THEN PointCloudValue(c, B)
                          ELSE FieldValue(e.name, B, e.space.shape[1])
    IN {[is_dict |-> TRUE,
         entries |-> [i \in 1..n |-> [name |-> space.entries[p[i]].name,
                                      value |-> value(space.entries[p[i]], c, B)]],
         value |-> PointCloudValue("", 0)] :
            p \in Orders(n), c \in Clouds, B \in 1..MaxBatch}

Observations(space) ==
    IF space.kind = "Dict" THEN DictObservations(space) ELSE BareObservations

ObsGetItem(obs, k) ==
    obs.entries[CHOOSE i \in 1..Len(obs.entries) : obs.entries[i].name = k].value

RECURSIVE ConcatCols(_)
ConcatCols(ts) == IF ts = <<>> THEN <<>> ELSE Head(ts).cols \o ConcatCols(Tail(ts))

\* torch.concatenate(tensors, dim=-1)
Concatenate(ts) ==
    IF ts = <<>> THEN TensorError("RuntimeError")
    ELSE IF \E i \in 1..Len(ts) : ts[i].err # "" THEN TensorError("RuntimeError")
    ELSE IF \E i \in 1..Len(ts) : ts[i].B # ts[1].B THEN TensorError("RuntimeError")
    ELSE Tensor(ts[1].B, ConcatCols(ts))

\* nn.Linear.__call__: one output column per out_feature, each a function of
\* the whole input row
LinearCall(layer, t) ==
    IF t.err # "" THEN t
    ELSE IF Width(t) # layer.in_features THEN TensorError("RuntimeError")
    ELSE Tensor(t.B, [k \in 1..layer.out_features |->
                        Col("state_encoder", k, <<>>,
                            [j \in 1..Width(t) |-> <<t.cols[j].src, t.cols[j].idx>>])])

----------------------------------------------------------------------------
(* The collaborators' call contracts *)

Value(term, B, width) == [term |-> term, B |-> B, width |-> width]

\* dict_to_batched_data(point_cloud) -> pos, batch, color
DictToBatchedData(point_cloud) ==
    [pos   |-> Value(<<"pos", point_cloud.cloud>>, point_cloud.B, 3),
     batch |-> Value(<<"batch", point_cloud.cloud>>, point_cloud.B, 1),
     color |-> Value(<<"color", point_cloud.cloud>>, point_cloud.B, 3)]

\* tokenizer(pos, batch, color) -> tokens, secondary output, patch centers
TokenizerCall(m, pos, batch, color) ==
    LET of == pos.term \o batch.term \o color.term
    IN [x |-> Value(<<"tokens">> \o of, pos.B, m.embed_dim),
        mask |-> Value(<<"mask">> \o of, pos.B, 1),
        center_points |-> Value(<<"centers">> \o of, pos.B, m.point_dim)]

\* pos_embedder(center_points) -> positional embeddings
PosEmbedderCall(m, center_points) ==
    Value(<<"pos_embedder">> \o center_points.term, center_points.B, m.embed_dim)

\* transformer_encoder(x, pos) -> contextualised tokens of the shape of x
TransformerEncoderCall(m, x, pos) ==
    Value(<<"transformer_encoder">> \o x.term \o pos.term, x.B, x.width)

\* pooling(x) -> one vector of width embed_dim per sample
PoolingCall(m, x) ==
    Tensor(x.B, [k \in 1..m.embed_dim |-> Col("pooling", k, <<"pooling">> \o x.term, <<>>)])

Call(stage, a) == [stage |-> stage, args |-> a]

----------------------------------------------------------------------------
(* PointPatchTransformer.forward *)

PipelinePoolFirst(s, point_cloud) ==
    LET d == DictToBatchedData(point_cloud)
        t == TokenizerCall(s.tokenizer[1], d.pos, d.batch, d.color)
        encoder_out == PoolingCall(s.pooling[1], t.x)
        pos == PosEmbedderCall(s.pos_embedder[1], t.center_points)
        x == TransformerEncoderCall(s.transformer_encoder[1], t.x, pos)
    IN [encoder_out |-> encoder_out,
        calls |-> <<Call("tokenizer", <<d.pos.term, d.batch.term, d.color.term>>),
                    Call("pooling", <<t.x.term>>),
                                Call("pos_embedder", <<t.center_points.term>>),
                                Call("transformer_encoder", <<t.x.term, pos.term>>)>>]

\* lines 65-70: tokenizer, positional embedder, transformer encoder, pooling
Pipeline(s, point_cloud) ==
    LET d == DictToBatchedData(point_cloud)
        t == TokenizerCall(s.tokenizer[1], d.pos, d.batch, d.color)
        pos == PosEmbedderCall(s.pos_embedder[1], t.center_points)
        x == TransformerEncoderCall(s.transformer_encoder[1], t.x, pos)
        encoder_out == PoolingCall(s.pooling[1], x)
    IN [encoder_out |-> encoder_out,
        calls |-> <<Call("tokenizer", <<d.pos.term, d.batch.term, d.color.term>>),
                    Call("pos_embedder", <<t.center_points.term>>),
                    Call("transformer_encoder", <<t.x.term, pos.term>>),
                    Call("pooling", <<x.term>>)>>]

\* [elem for name, elem in observation.items() if name != "points"]
StateList(obs) ==
    LET es == StateEntries(obs.entries)
    IN [i \in 1..Len(es) |-> Tensor(es[i].value.B, es[i].value.cols)]

FuseStateFirst(s, encoder_out, obs) ==
    IF s.obs_is_dict[1]
    THEN LET state == StateList(obs)
             projected == IF s.state_encoder # None
                          THEN <<LinearCall(s.state_encoder[1], Concatenate(state))>>
                          ELSE state
         IN Concatenate(projected \o <<encoder_out>>)
    ELSE encoder_out

\* lines 72-81: the state part and the final concatenation
FuseState(s, encoder_out, obs) ==
    IF s.obs_is_dict[1]
    THEN LET state == StateList(obs)
             projected == IF s.state_encoder # None
                          THEN <<LinearCall(s.state_encoder[1], Concatenate(state))>>
                          ELSE state
         IN Concatenate(<<encoder_out>> \o projected)
    ELSE encoder_out

ForwardSelfDropsEncoder(s) == [s EXCEPT !.state_encoder = None]

\* the fields of self after a forward call: forward assigns none of them
ForwardSelf(s) == s

Forward(s, obs) ==
    LET point_cloud == IF s.obs_is_dict[1] THEN ObsGetItem(obs, "points") ELSE obs.value
        p == Pipeline(s, point_cloud)
    IN [self |-> ForwardSelf(s),
        out |-> FuseState(s, p.encoder_out, obs),
        calls |-> p.calls]

----------------------------------------------------------------------------
(* The state machine *)

NoArgs == [obs_space |-> Box(<<>>), embed_dim |-> 0, state_embed_dim |-> None]

Init ==
    /\ self = NewSelf
    /\ status = "new"
    /\ error = ""
    /\ events = <<>>
    /\ args = NoArgs
    /\ observation = <<>>
    /\ out = NoTensor
    /\ calls = <<>>
    /\ first = <<>>
    /\ ncalls = 0

StateEmbedDims == {None} \cup {<<d>> : d \in 1..MaxStateEmbedDim}

\* PointPatchTransformer(obs_space, tokenizer, pos_embedder, transformer_encoder,
\*                       embed_dim, state_embed_dim)
DoConstruct(spaces, layers) ==
    /\ status = "new"
    /\ \E obs_space \in spaces, embed_dim \in 1..MaxEmbedDim, state_embed_dim \in StateEmbedDims,
          tok \in layers, pe \in layers, te \in layers, pool \in layers :
          LET r == Construct(obs_space, <<tok>>, <<pe>>, <<te>>, <<pool>>,
                             embed_dim, state_embed_dim)
          IN /\ self' = r.self
             /\ error' = r.error
             /\ events' = r.events
             /\ status' = IF r.error = "" THEN "constructed" ELSE "failed"
             /\ args' = [obs_space |-> obs_space, embed_dim |-> embed_dim,
                         state_embed_dim |-> state_embed_dim]
    /\ UNCHANGED <<observation, out, calls, first, ncalls>>

\* encoder(observation)
DoForward ==
    /\ status = "constructed"
    /\ ncalls < MaxCalls
    /\ \E obs \in Observations(args.obs_space) :
          LET r == Forward(self, obs)
          IN /\ self' = r.self
             /\ out' = r.out
             /\ calls' = r.calls
             /\ observation' = <<obs>>
             /\ first' = IF first = <<>> THEN <<[obs |-> obs, out |-> r.out]>> ELSE first
    /\ ncalls' = ncalls + 1
    /\ UNCHANGED <<status, error, events, args>>

ConstructAny == DoConstruct(ObsSpaces, CanonicalLayers)

Next == ConstructAny \/ DoForward

Spec == Init /\ [][Next]_vars

\* the observation spaces used when the collaborators' layers are varied
LayerObsSpaces ==
    { PointCloudSpace(3),
      DictSpace(<<[name |-> "points", space |-> PointCloudSpace(3)]>>),
      DictSpace(<<[name |-> "a", space |-> Box(<<1>>)],
                  [name |-> "points", space |-> PointCloudSpace(3)]>>),
      DictSpace(<<[name |-> "points", space |-> Box(<<1>>)]>>) }

ConstructLayers == DoConstruct(LayerObsSpaces, LayerChoices)

\* a single forward call on the encoder just constructed
ForwardOnce == ncalls = 0 /\ DoForward

NextLayers == ConstructLayers \/ ForwardOnce

SpecLayers == Init /\ [][NextLayers]_vars

----------------------------------------------------------------------------
(* Properties *)

Constructed == status = "constructed"

Forwarded == Constructed /\ observation # <<>>

IsComposite == Constructed /\ self.obs_is_dict = <<TRUE>>

IsBare == Constructed /\ self.obs_is_dict = <<FALSE>>

Projected == args.state_embed_dim # None

\* batch size of the point cloud of the observation last passed to forward
ObsBatch ==
    IF observation[1].is_dict THEN ObsGetItem(observation[1], "points").B
    ELSE observation[1].value.B

\* the columns of the auxiliary fields of an observation, as <<field, index>>
\* pairs in the order the mapping yields the fields
RECURSIVE AuxColumns(_)
AuxColumns(entries) ==
    IF entries = <<>> THEN <<>>
    ELSE LET e == Head(entries)
         IN (IF e.name = "points" THEN <<>>
             ELSE [j \in 1..Len(e.value.cols) |-> <<e.name, j>>])
            \o AuxColumns(Tail(entries))

\* S: the total width of the auxiliary fields of the observation
AuxWidth == Len(AuxColumns(observation[1].entries))

HasShape(t, B, width) == t.err = "" /\ t.B = B /\ Width(t) = width

C2_ProjectedShape ==
    (Forwarded /\ IsComposite /\ Projected)
        => HasShape(out, ObsBatch, args.embed_dim + args.state_embed_dim[1])

\* C3: composite observation without state_embed_dim: no projection layer,
\* the recorded state width is S and the output has shape [B, embed_dim + S]
C3_UnprojectedShape ==
    (IsComposite /\ ~Projected)
        => /\ self.state_encoder = None
           /\ Forwarded => /\ self.state_dim = <<AuxWidth>>
                           /\ HasShape(out, ObsBatch, args.embed_dim + AuxWidth)

C3_Witness ==
    Forwarded /\ IsComposite /\ ~Projected /\ AuxWidth > 1
        /\ observation[1].entries[1].name # "points"

\* C4: bare observation space, with or without state_embed_dim: recorded
\* state width 0, no projection layer, and forward returns the pooled vector
\* itself, of shape [B, embed_dim]
C4_BareShape ==
    IsBare
        => /\ self.state_dim = <<0>>
           /\ self.state_encoder = None
           /\ Forwarded => /\ HasShape(out, ObsBatch, args.embed_dim)
                           /\ \A k \in 1..Width(out) :
                                 out.cols[k].src = "pooling" /\ out.cols[k].idx = k

C4_Witness == Forwarded /\ IsBare /\ Projected /\ ObsBatch > 1

ComponentNames == {"tokenizer", "pos_embedder", "transformer_encoder", "pooling"}

LayerInitialised(l) ==
    /\ l.type = "Linear" => l.bias \in {<<>>, <<"zero">>}
    /\ l.type = "LayerNorm" => l.bias = <<"zero">> /\ l.weight = <<"one">>

ComponentsInitialised ==
    \A n \in ComponentNames : \A i \in 1..Len(self[n][1].layers) :
        LayerInitialised(self[n][1].layers[i])

\* C5 as stated: after construction every linear layer of the encoder, the
\* state projection included, has bias 0 when it has one, and every
\* normalisation layer has bias 0 and scale 1
C5_AllLayersInitialised ==
    Constructed
        => /\ ComponentsInitialised
           /\ self.state_encoder # None => LayerInitialised(self.state_encoder[1])

\* C5 amended: after construction the layers of the tokenizer, positional
\* embedder, transformer encoder and pooling stage are initialised (linear
\* bias 0 when present, normalisation bias 0 and scale 1), while the state
\* projection, when created, keeps the default initialisation of nn.Linear
C5_ComponentLayersInitialised ==
    Constructed
        => /\ ComponentsInitialised
           /\ self.state_encoder # None
                => /\ self.state_encoder[1].weight = <<"kaiming_uniform">>
                   /\ self.state_encoder[1].bias =
                        <<IF self.state_encoder[1].in_features > 0 THEN "uniform" ELSE "zero">>

C5_Witness ==
    /\ Constructed
    /\ self.state_encoder # None
    /\ self.state_encoder[1].in_features > 0
    /\ self.tokenizer[1].layers[1].type = "Linear"
    /\ self.tokenizer[1].layers[1].bias # <<>>
    /\ self.transformer_encoder[1].layers[1].type = "LayerNorm"

\* the point-cloud sub-space exists and is not a PointCloudSpace
BadPointSpace(obs_space) ==
    IF obs_space.kind = "Dict"
    THEN HasKey(obs_space, "points") /\ GetItem(obs_space, "points").kind # "PointCloudSpace"
    ELSE obs_space.kind # "PointCloudSpace"

\* C6: when the point-cloud sub-space is not a PointCloudSpace, construction
\* fails with an assertion error, no sub-component has been instantiated and
\* no usable encoder results
C6_AssertionBeforeComponents ==
    (status # "new" /\ BadPointSpace(args.obs_space))
        => /\ status = "failed"
           /\ error = "AssertionError"
           /\ \A i \in 1..Len(events) : events[i].ev # "instantiate"
           /\ \A n \in ComponentNames : self[n] = <<>>

C6_Witness ==
    status = "failed" /\ error = "AssertionError" /\ args.obs_space.kind = "Dict"
        /\ Len(args.obs_space.entries) > 1

EventIndices(ev) == {i \in 1..Len(events) : events[i].ev = ev}

\* C8: in construction the four sub-components are instantiated first, then
\* the initialisation pass visits each sub-layer existing at that moment
\* once, and only then is the state projection created; the pass never
\* visits the state projection
C8_ConstructionOrder ==
    /\ \A i \in EventIndices("instantiate") : \A j \in EventIndices("init") : i < j
    /\ \A i \in EventIndices("init") : \A j \in EventIndices("create") : i < j
    /\ \A i \in EventIndices("init") : events[i].what # "state_encoder"
    /\ \A i, j \in EventIndices("init") : events[i] = events[j] => i = j
    /\ EventIndices("init") # {}
         => [i \in 1..4 |-> events[i].what]
                = <<"tokenizer", "pos_embedder", "transformer_encoder", "pooling">>
    /\ Constructed
         => /\ \A n \in ComponentNames : \A k \in 1..Len(self[n][1].layers) :
                  \E i \in EventIndices("init") : events[i].what = n /\ events[i].idx = k
            /\ self.state_encoder # None <=> EventIndices("create") # {}

C8_Witness ==
    Constructed /\ self.state_encoder # None /\ self.tokenizer[1].layers[1].type = "LayerNorm"

Contains(term, word) == \E i \in 1..Len(term) : term[i] = word

\* C9: every forward call runs tokenizer, positional embedder, transformer
\* encoder and pooling once each in that order; the positional embedder gets
\* the patch centers only, the transformer encoder the tokens and the
\* positional embeddings, pooling the transformer output, and the
\* tokenizer's secondary output reaches no stage
C9_PipelineOrder ==
    Forwarded
        => /\ [i \in 1..Len(calls) |-> calls[i].stage]
                = <<"tokenizer", "pos_embedder", "transformer_encoder", "pooling">>
           /\ Len(calls[2].args) = 1
           /\ Head(calls[2].args[1]) = "centers"
           /\ Tail(calls[2].args[1]) = calls[1].args[1] \o calls[1].args[2] \o calls[1].args[3]
           /\ Len(calls[3].args) = 2
           /\ Head(calls[3].args[1]) = "tokens"
           /\ Tail(calls[3].args[1]) = calls[1].args[1] \o calls[1].args[2] \o calls[1].args[3]
           /\ calls[3].args[2] = <<"pos_embedder">> \o calls[2].args[1]
           /\ calls[4].args = << <<"transformer_encoder">> \o calls[3].args[1] \o calls[3].args[2] >>
           /\ \A i \in 1..Len(calls) : \A j \in 1..Len(calls[i].args) :
                 ~Contains(calls[i].args[j], "mask")
           /\ \A k \in 1..Width(out) :
                 out.cols[k].src = "pooling" => out.cols[k].term = <<"pooling">> \o calls[4].args[1]

C9_Witness == Forwarded /\ IsComposite /\ out.err = "" /\ ncalls > 1

\* C10: the output of forward on a composite observation is the pooled
\* embedding in columns 1..embed_dim followed by the state part: without a
\* projection the auxiliary fields, whole, in the order the observation
\* yields them; with a projection one vector obtained by applying the
\* projection once to the concatenation of the fields in that order
C10_OutputLayout ==
    (Forwarded /\ IsComposite /\ out.err = "")
        => LET E == args.embed_dim
               aux == AuxColumns(observation[1].entries)
           IN /\ Width(out) >= E
              /\ \A k \in 1..E : out.cols[k].src = "pooling" /\ out.cols[k].idx = k
              /\ \A k \in (E + 1)..Width(out) : out.cols[k].src \notin {"pooling", "points"}
              /\ self.state_encoder = None
                   => [k \in 1..(Width(out) - E) |->
                          <<out.cols[E + k].src, out.cols[E + k].idx>>] = aux
              /\ self.state_encoder # None
                   => /\ Width(out) - E = self.state_encoder[1].out_features
                      /\ \A k \in 1..(Width(out) - E) :
                            /\ out.cols[E + k].src = "state_encoder"
                            /\ out.cols[E + k].idx = k
                            /\ out.cols[E + k].input = aux

C10_Witness ==
    /\ Forwarded /\ IsComposite /\ out.err = ""
    /\ self.state_encoder # None
    /\ Len(observation[1].entries) = 3
    /\ observation[1].entries[2].name = "points"
    /\ observation[1].entries[1].name = "b"

====
